---------------------------- MODULE Spec2Model ----------------------------
(***************************************************************************)
(* Model of the Nova backend (src/main.py): the /chat, /transcribe and /   *)
(* endpoints, the rule-based tools and the per-user memory map.            *)
(*                                                                         *)
(* A string is a sequence of atoms.  In request messages every atom is one *)
(* character; the literal phrases of the code's reply templates are single *)
(* atoms, and formatting is concatenation.  An optional value (None or a   *)
(* string) is <<>> or <<s>>.                                               *)
(***************************************************************************)
EXTENDS Integers, Sequences, FiniteSets, TLC

VARIABLES
    user_memory,  \* user_memory (line 27): user id -> list of records
    inflight,     \* HTTP requests accepted and not yet started, in start order
    reqs,         \* the handler invocations started so far, by id (their frames)
    current       \* id of the coroutine holding the event loop, 0 when idle

vars == <<user_memory, inflight, reqs, current>>

----------------------------------------------------------------------------
(* Bounds of the model. *)

MaxInFlight == 2   \* requests in flight together in a concurrent workload
MaxNotes == 4      \* note requests that precede the last request of a long run
MaxHist == 11      \* longest request history a client sends

(* Program constant: the window of history[-10:] and incoming_history[-10:]. *)
Window == 10

Users == {"u1", "u2"}

----------------------------------------------------------------------------
(* Python string and list primitives used by the code. *)

Min(a, b) == IF a < b THEN a ELSE b
Max(a, b) == IF a > b THEN a ELSE b

UpperChars == <<"A","B","C","D","E","F","G","H","I","J","K","L","M",
                "N","O","P","Q","R","S","T","U","V","W","X","Y","Z">>
LowerChars == <<"a","b","c","d","e","f","g","h","i","j","k","l","m",
                "n","o","p","q","r","s","t","u","v","w","x","y","z">>

LowerChar(c) ==
    IF \E i \in 1..Len(UpperChars) : UpperChars[i] = c
    THEN LowerChars[CHOOSE i \in 1..Len(UpperChars) : UpperChars[i] = c]
    ELSE c

\* str.lower()
Lower(s) == [i \in 1..Len(s) |-> LowerChar(s[i])]

\* the characters str.strip() removes
IsSpace(c) == c \in {" ", "\t", "\n"}

RECURSIVE LStrip(_)
LStrip(s) ==
    IF s = <<>> THEN <<>>
    ELSE IF IsSpace(Head(s)) THEN LStrip(Tail(s)) ELSE s

RECURSIVE RStripChars(_, _)
RStripChars(s, cs) ==
    IF s = <<>> THEN <<>>
    ELSE IF s[Len(s)] \in cs THEN RStripChars(SubSeq(s, 1, Len(s) - 1), cs) ELSE s

StripKeep(s) == s

\* str.strip()
Strip(s) == RStripChars(LStrip(s), {" ", "\t", "\n"})

\* str.find(p): the lowest 0-based index where p occurs in s, or -1
Find(s, p) ==
    LET hits == {i \in 0..(Len(s) - Len(p)) : SubSeq(s, i + 1, i + Len(p)) = p}
    IN  IF hits = {} THEN -1 ELSE CHOOSE i \in hits : \A j \in hits : i <= j

\* str.startswith(p)
StartsWith(s, p) == Len(s) >= Len(p) /\ SubSeq(s, 1, Len(p)) = p

ContainsAtStart(s, p) == StartsWith(s, p)

\* p in s
Contains(s, p) == Find(s, p) # -1

\* s[k:] for k >= 0
SliceFrom(s, k) == SubSeq(s, k + 1, Len(s))

SliceFirst(s, k) == SubSeq(s, 1, Min(k, Len(s)))

SliceAll(s, k) == s

\* s[-k:] for k > 0
SliceLast(s, k) == SubSeq(s, Max(Len(s) - k, 0) + 1, Len(s))

\* s.split(c, 1)[-1]: what follows the first c, or all of s when c is not in s
SplitLast(s, c) ==
    IF Contains(s, <<c>>) THEN SliceFrom(s, Find(s, <<c>>) + 1) ELSE s

----------------------------------------------------------------------------
(* Literals of the code. *)

WeatherIn == <<"w","e","a","t","h","e","r"," ","i","n"," ">>   \* "weather in "
NoteColon == <<"n","o","t","e",":">>                           \* "note:"
NoteSpace == <<"n","o","t","e"," ">>                           \* "note "
CityTrail == {"?", " ", ".", ",", "!"}                         \* rstrip("? .,!")
DefaultCity == <<"Bentonville">>

SystemPrompt == <<"You are Nova, a friendly, concise personal AI assistant. ...">>
OpenAIApology ==
    <<"Sorry, I had an issue talking to my brain (OpenAI). Try again in a moment.">>
WeatherSorry == <<"Sorry, I couldn't retrieve the weather right now.">>
WeatherUnavailable == <<"Weather information is not available right now.">>
NoteEmpty == <<"Your note is empty. Try 'Note: buy hay for the horses.'">>

WeatherNotFound(city) ==
    <<"I couldn't find weather information for '">> \o city \o <<"'.">>
WeatherReport(city, temp, wind) ==
    <<"The current temperature in ">> \o city \o <<" is ">> \o temp
        \o <<" C with wind speeds of ">> \o wind \o <<" km/h.">>
NoteSaved(content) == <<"Got it, I saved a note: ">> \o content
NoteText(content) == <<"[NOTE] ">> \o content

Record(role, content) == [role |-> role, content |-> content]

----------------------------------------------------------------------------
(* The memory map. *)

\* user_memory.get(user_id, [])
Get(memory, user_id) ==
    IF user_id \in DOMAIN memory THEN memory[user_id] ELSE <<>>

AppendShared(memory, user_id, rec) ==
    [u \in DOMAIN memory \cup {user_id} |-> Append(Get(memory, u), rec)]

AppendFresh(memory, user_id, rec) ==
    [u \in DOMAIN memory \cup {user_id} |->
        IF u = user_id THEN <<rec>> ELSE memory[u]]

\* user_memory.setdefault(user_id, []); user_memory[user_id].append(rec)
AppendTo(memory, user_id, rec) ==
    [u \in DOMAIN memory \cup {user_id} |->
        IF u = user_id THEN Append(Get(memory, user_id), rec) ELSE memory[u]]

----------------------------------------------------------------------------
(* The external services: what a call can come back with. *)

\* requests.get(geocode_url).json(): raises, or a body without "results",
\* with an empty "results", with a first result lacking "latitude", or usable
GeoResponses == {"raise", "no_results_key", "empty_results", "no_latitude", "found"}

\* requests.get(weather_url).json(): raises, or a body without
\* "current_weather", with one, or with one that has no values
WeatherResponses == {"raise", "no_current_weather", "current", "current_empty"}

\* client.chat.completions.create(): raises, returns no choice, or returns a
\* first choice whose message.content is None or a string
Completions ==
    {[kind |-> "raise", content |-> <<>>],
     [kind |-> "no_choices", content |-> <<>>],
     [kind |-> "choice", content |-> <<>>],
     [kind |-> "choice", content |-> << <<" ", "H", "i", ".", "\n">> >>],
     [kind |-> "choice", content |-> << <<" ", " ">> >>]}

\* client.audio.transcriptions.create(): raises, or returns a text
Transcriptions == {<<>>, << <<"h", "e", "l", "l", "o">> >>}

----------------------------------------------------------------------------
(* The tools. *)

get_weather_for_city(city, geo, weather) ==
    CASE geo = "raise" -> WeatherSorry
      [] geo \in {"no_results_key", "empty_results"} -> WeatherNotFound(city)
      [] geo = "no_latitude" -> WeatherSorry
      [] geo = "found" ->
            CASE weather = "raise" -> WeatherSorry
              [] weather = "no_current_weather" -> WeatherUnavailable
              [] weather = "current" -> WeatherReport(city, <<"21.3">>, <<"5.0">>)
              [] weather = "current_empty" -> WeatherReport(city, <<"None">>, <<"None">>)

\* lines 92-96
WeatherRule(lower) == Contains(lower, WeatherIn)

WeatherCity(message) ==
    LET idx == Find(Lower(message), WeatherIn) + Len(WeatherIn)
        city == RStripChars(Strip(SliceFrom(message, idx)), CityTrail)
    IN  IF city = <<>> THEN DefaultCity ELSE city

WeatherTool(memory, message, geo, weather) ==
    [reply |-> <<get_weather_for_city(WeatherCity(message), geo, weather)>>,
     memory |-> memory, tool |-> "weather", stored |-> <<>>]

\* lines 99-105
NoteRule(lower) == StartsWith(lower, NoteColon) \/ StartsWith(lower, NoteSpace)

NoteContent(message) ==
    IF Contains(message, <<":">>)
    THEN Strip(SplitLast(message, ":"))
    ELSE Strip(SliceFrom(message, 5))

NeverEmpty(content) == FALSE

\* `not content`
IsEmpty(content) == content = <<>>

NoteTool(memory, user_id, message) ==
    LET content == NoteContent(message)
    IN  IF IsEmpty(content)
        THEN [reply |-> <<NoteEmpty>>, memory |-> memory, tool |-> "note",
              stored |-> <<>>]
        ELSE [reply |-> <<NoteSaved(content)>>,
              memory |-> AppendTo(memory, user_id, Record("system", NoteText(content))),
              tool |-> "note",
              stored |-> <<Record("system", NoteText(content))>>]

NoTool(memory) == [reply |-> <<>>, memory |-> memory, tool |-> "none", stored |-> <<>>]

maybe_handle_tools_note_first(memory, user_id, message, geo, weather) ==
    IF NoteRule(Lower(message)) THEN NoteTool(memory, user_id, message)
    ELSE IF WeatherRule(Lower(message)) THEN WeatherTool(memory, message, geo, weather)
    ELSE NoTool(memory)

\* reply: None (<<>>) or the tool's reply; memory: the map after the call;
\* tool, stored: which rule handled the message and the record it appended
maybe_handle_tools(memory, user_id, message, geo, weather) ==
    IF WeatherRule(Lower(message)) THEN WeatherTool(memory, message, geo, weather)
    ELSE IF NoteRule(Lower(message)) THEN NoteTool(memory, user_id, message)
    ELSE NoTool(memory)

----------------------------------------------------------------------------
(* The conversation sent to the language model and the reply taken from it. *)

\* [{"role": m.role, "content": m.content} for m in req.history]
IncomingHistory(history) ==
    [i \in 1..Len(history) |-> Record(history[i].role, history[i].content)]

\* lines 147-150
BuildMessages(history, incoming_history, user_message) ==
    <<Record("system", SystemPrompt)>>
        \o SliceLast(history, Window)
        \o SliceLast(incoming_history, Window)
        \o <<Record("user", user_message)>>

CompletionReplyNoFallback(completion) ==
    IF completion.kind = "choice" /\ completion.content # <<>>
    THEN Strip(completion.content[1])
    ELSE <<>>

\* lines 153-162: an exception of the call, of choices[0] or of None.strip()
\* is caught and gives the apology
CompletionReply(completion) ==
    IF completion.kind = "choice" /\ completion.content # <<>>
    THEN Strip(completion.content[1])
    ELSE OpenAIApology

----------------------------------------------------------------------------
(* The requests clients send. *)

ChatRequest(user_id, message, history) ==
    [endpoint |-> "chat", user_id |-> user_id, message |-> message,
     history |-> history]
TranscribeRequest ==
    [endpoint |-> "transcribe", user_id |-> "", message |-> <<>>, history |-> <<>>]
RootRequest ==
    [endpoint |-> "root", user_id |-> "", message |-> <<>>, history |-> <<>>]

\* a client-side history of n Message objects, each with its own content
Hist(n) ==
    [i \in 1..n |->
        [role |-> IF i % 2 = 1 THEN "user" ELSE "assistant",
         content |-> <<"h">> \o [j \in 1..i |-> "i"]]]

Histories == {Hist(n) : n \in 0..MaxHist}

Heads ==
    {<<>>,
     <<"n","o","t","e",":">>,
     <<"n","o","t","e"," ">>,
     <<"N","o","t","e",":"," ">>,
     <<"N","O","T","E">>,
     <<" ","n","o","t","e",":">>,
     <<"h","i"," ">>,
     <<"\t","N","o","t","e"," ">>}
Mids ==
    {<<>>,
     <<"w","e","a","t","h","e","r"," ","i","n"," ">>,
     <<"W","e","a","t","h","e","r"," ","I","N">>,
     <<"a">>}
Tails ==
    {<<>>,
     <<"x">>,
     <<" ">>,
     <<"?">>,
     <<":","b">>,
     <<" ","x","?"," ">>}

\* the messages of single requests: every head, middle and tail
Messages == {h \o m \o t : h \in Heads, m \in Mids, t \in Tails}

\* the messages of requests that run together: one per path of the handler
CoreMessages ==
    {<<"h","i">>,
     <<"n","o","t","e",":"," ","a">>,
     <<"n","o","t","e",":">>,
     <<"w","e","a","t","h","e","r"," ","i","n"," ","x">>}

CoreRequests ==
    {ChatRequest(u, m, Hist(1)) : u \in Users, m \in CoreMessages}
        \cup {TranscribeRequest, RootRequest}

\* one request: of any user and message, or of any user and history
SingleWorkloads ==
    {<<ChatRequest(u, m, Hist(1))>> : u \in Users, m \in Messages}
        \cup {<<ChatRequest(u, <<" ","h","i","?"," ">>, h)>> : u \in Users, h \in Histories}

\* up to MaxInFlight requests in flight together
ConcurrentWorkloads == UNION {[1..n -> CoreRequests] : n \in 0..MaxInFlight}

\* a long conversation of one user: notes, then one more request
LongWorkloads ==
    {[i \in 1..k |-> ChatRequest("u1", <<"n","o","t","e",":"," ","a">>, <<>>)]
        \o <<ChatRequest("u1", m, h)>> :
            k \in 1..MaxNotes, m \in CoreMessages, h \in {Hist(0), Hist(MaxHist)}}

\* every endpoint at once: a transcription, a health check and a chat of each of
\* two users
MixedWorkloads ==
    {<<TranscribeRequest, RootRequest,
       ChatRequest("u1", m1, Hist(1)), ChatRequest("u2", m2, Hist(1))>> :
            m1 \in CoreMessages, m2 \in CoreMessages}

Workloads ==
    SingleWorkloads \cup ConcurrentWorkloads \cup LongWorkloads \cup MixedWorkloads

----------------------------------------------------------------------------
(* Scheduling: coroutines run on one event loop and give it up only at an  *)
(* await; a plain def endpoint runs in the server's thread pool.           *)

AwaitsEverywhere(endpoint, pc) == TRUE

\* the only await of the handlers is `await file.read()` (line 46); chat
\* (lines 113-169) has none
Awaits(endpoint, pc) == endpoint = "transcribe" /\ pc = "read"

\* `def root` (line 175) is not a coroutine
InThreadpool(endpoint) == endpoint = "root"

EntryPc(endpoint) ==
    CASE endpoint = "chat" -> "tools"
      [] endpoint = "transcribe" -> "read"
      [] endpoint = "root" -> "root"

\* who holds the event loop after coroutine id ran the step at pc
Release(id, endpoint, pc, next_pc) ==
    IF next_pc = "done" \/ Awaits(endpoint, pc) THEN 0 ELSE id

\* the frame of a handler invocation.  mem0, tool, stored, geo, weather,
\* completion, api_calls and at record what happened (they are read by the
\* properties only): the user's list when the handler started, the tool that
\* handled the message, the external responses, the number of language-model
\* calls and the positions of the records the request appended.
Frame(req, memory) ==
    [endpoint |-> req.endpoint, user_id |-> req.user_id, message |-> req.message,
     history |-> req.history, pc |-> EntryPc(req.endpoint),
     user_message |-> <<>>, tool_reply |-> <<>>, messages |-> <<>>,
     reply |-> <<>>, status |-> 0,
     mem0 |-> Get(memory, req.user_id), tool |-> "", stored |-> <<>>,
     geo |-> "", weather |-> "", completion |-> <<>>, api_calls |-> 0,
     at |-> <<>>]

----------------------------------------------------------------------------
Init ==
    /\ user_memory = [u \in {} |-> <<>>]
    /\ inflight \in Workloads
    /\ reqs = <<>>
    /\ current = 0

\* the server starts the handler of the next request
Dispatch ==
    /\ current = 0
    /\ inflight # <<>>
    /\ LET req == Head(inflight)
           id == Len(reqs) + 1
       IN  /\ reqs' = Append(reqs, Frame(req, user_memory))
           /\ current' = IF InThreadpool(req.endpoint) THEN 0 ELSE id
    /\ inflight' = Tail(inflight)
    /\ UNCHANGED user_memory

\* the event loop resumes a suspended coroutine
Resume(id) ==
    /\ current = 0
    /\ reqs[id].pc # "done"
    /\ ~InThreadpool(reqs[id].endpoint)
    /\ current' = id
    /\ UNCHANGED <<user_memory, inflight, reqs>>

\* lines 120-125: trim the message and try the tools
ToolCheck(id) ==
    /\ current = id
    /\ reqs[id].pc = "tools"
    /\ \E geo \in GeoResponses, weather \in WeatherResponses :
        LET f == reqs[id]
            user_message == Strip(f.message)
            r == maybe_handle_tools(user_memory, f.user_id, user_message, geo, weather)
            next_pc == IF r.reply # <<>> THEN "tool_user" ELSE "build"
        IN  /\ user_memory' = r.memory
            /\ reqs' = [reqs EXCEPT ![id] =
                    [f EXCEPT !.user_message = user_message,
                              !.tool_reply = r.reply,
                              !.tool = r.tool,
                              !.stored = r.stored,
                              !.geo = IF r.tool = "weather" THEN geo ELSE "",
                              !.weather = IF r.tool = "weather" /\ geo = "found"
                                          THEN weather ELSE "",
                              !.at = IF r.stored # <<>>
                                     THEN <<Len(r.memory[f.user_id])>> ELSE <<>>,
                              !.pc = next_pc]]
            /\ current' = Release(id, f.endpoint, "tools", next_pc)
    /\ UNCHANGED inflight

\* lines 127-128
ToolAppendUser(id) ==
    /\ current = id
    /\ reqs[id].pc = "tool_user"
    /\ LET f == reqs[id]
           memory == AppendTo(user_memory, f.user_id, Record("user", f.user_message))
       IN  /\ user_memory' = memory
           /\ reqs' = [reqs EXCEPT ![id] =
                   [f EXCEPT !.at = Append(f.at, Len(memory[f.user_id])),
                             !.pc = "tool_assistant"]]
           /\ current' = Release(id, f.endpoint, "tool_user", "tool_assistant")
    /\ UNCHANGED inflight

\* lines 129-131
ToolAppendAssistant(id) ==
    /\ current = id
    /\ reqs[id].pc = "tool_assistant"
    /\ LET f == reqs[id]
           memory == AppendTo(user_memory, f.user_id, Record("assistant", f.tool_reply[1]))
       IN  /\ user_memory' = memory
           /\ reqs' = [reqs EXCEPT ![id] =
                   [f EXCEPT !.at = Append(f.at, Len(memory[f.user_id])),
                             !.reply = f.tool_reply,
                             !.status = 200,
                             !.pc = "done"]]
           /\ current' = Release(id, f.endpoint, "tool_assistant", "done")
    /\ UNCHANGED inflight

\* lines 135-150
BuildConversation(id) ==
    /\ current = id
    /\ reqs[id].pc = "build"
    /\ LET f == reqs[id]
           history == Get(user_memory, f.user_id)
           incoming_history == IncomingHistory(f.history)
       IN  /\ reqs' = [reqs EXCEPT ![id] =
                   [f EXCEPT !.messages =
                                 BuildMessages(history, incoming_history, f.user_message),
                             !.pc = "call"]]
           /\ current' = Release(id, f.endpoint, "build", "call")
    /\ UNCHANGED <<user_memory, inflight>>

\* lines 153-162
CallOpenAI(id) ==
    /\ current = id
    /\ reqs[id].pc = "call"
    /\ \E completion \in Completions :
        LET f == reqs[id]
        IN  /\ reqs' = [reqs EXCEPT ![id] =
                    [f EXCEPT !.completion = <<completion>>,
                              !.api_calls = f.api_calls + 1,
                              !.reply = <<CompletionReply(completion)>>,
                              !.pc = "update_user"]]
            /\ current' = Release(id, f.endpoint, "call", "update_user")
    /\ UNCHANGED <<user_memory, inflight>>

\* lines 165-166
AppendUser(id) ==
    /\ current = id
    /\ reqs[id].pc = "update_user"
    /\ LET f == reqs[id]
           memory == AppendTo(user_memory, f.user_id, Record("user", f.user_message))
       IN  /\ user_memory' = memory
           /\ reqs' = [reqs EXCEPT ![id] =
                   [f EXCEPT !.at = Append(f.at, Len(memory[f.user_id])),
                             !.pc = "update_assistant"]]
           /\ current' = Release(id, f.endpoint, "update_user", "update_assistant")
    /\ UNCHANGED inflight

\* lines 167-169
AppendAssistant(id) ==
    /\ current = id
    /\ reqs[id].pc = "update_assistant"
    /\ LET f == reqs[id]
           memory == AppendTo(user_memory, f.user_id, Record("assistant", f.reply[1]))
       IN  /\ user_memory' = memory
           /\ reqs' = [reqs EXCEPT ![id] =
                   [f EXCEPT !.at = Append(f.at, Len(memory[f.user_id])),
                             !.status = 200,
                             !.pc = "done"]]
           /\ current' = Release(id, f.endpoint, "update_assistant", "done")
    /\ UNCHANGED inflight

\* line 46: await file.read()
TranscribeRead(id) ==
    /\ current = id
    /\ reqs[id].pc = "read"
    /\ reqs' = [reqs EXCEPT ![id].pc = "create"]
    /\ current' = Release(id, reqs[id].endpoint, "read", "create")
    /\ UNCHANGED <<user_memory, inflight>>

\* lines 48-53: an exception of the call is not caught and fails the request
TranscribeCreate(id) ==
    /\ current = id
    /\ reqs[id].pc = "create"
    /\ \E result \in Transcriptions :
        reqs' = [reqs EXCEPT ![id] =
            [reqs[id] EXCEPT !.reply = result,
                             !.status = IF result = <<>> THEN 500 ELSE 200,
                             !.pc = "done"]]
    /\ current' = Release(id, reqs[id].endpoint, "create", "done")
    /\ UNCHANGED <<user_memory, inflight>>

\* lines 174-176, on a thread of the pool
Root(id) ==
    /\ reqs[id].pc = "root"
    /\ reqs' = [reqs EXCEPT ![id] =
            [reqs[id] EXCEPT !.reply = << <<"Nova backend is running!">> >>,
                             !.status = 200,
                             !.pc = "done"]]
    /\ UNCHANGED <<user_memory, inflight, current>>

Next ==
    \/ Dispatch
    \/ \E id \in DOMAIN reqs : Resume(id)
    \/ \E id \in DOMAIN reqs : ToolCheck(id)
    \/ \E id \in DOMAIN reqs : ToolAppendUser(id)
    \/ \E id \in DOMAIN reqs : ToolAppendAssistant(id)
    \/ \E id \in DOMAIN reqs : BuildConversation(id)
    \/ \E id \in DOMAIN reqs : CallOpenAI(id)
    \/ \E id \in DOMAIN reqs : AppendUser(id)
    \/ \E id \in DOMAIN reqs : AppendAssistant(id)
    \/ \E id \in DOMAIN reqs : TranscribeRead(id)
    \/ \E id \in DOMAIN reqs : TranscribeCreate(id)
    \/ \E id \in DOMAIN reqs : Root(id)

Spec == Init /\ [][Next]_vars

----------------------------------------------------------------------------
(* What the properties speak about, stated without the operators above.    *)

Chats == {id \in DOMAIN reqs : reqs[id].endpoint = "chat"}
DoneChats == {id \in Chats : reqs[id].pc = "done"}
AllDone == inflight = <<>> /\ \A id \in DOMAIN reqs : reqs[id].pc = "done"

\* s without its leading and trailing whitespace: from its first to its last
\* character that is not whitespace
TrimOf(s) ==
    LET solid == {k \in 1..Len(s) : ~IsSpace(s[k])}
    IN  IF solid = {} THEN <<>>
        ELSE [k \in 1..(1 + (CHOOSE j \in solid : \A i \in solid : i <= j)
                             - (CHOOSE j \in solid : \A i \in solid : j <= i)) |->
                s[k + (CHOOSE j \in solid : \A i \in solid : j <= i) - 1]]

SameLetter(a, b) ==
    a = b \/ \E i \in 1..Len(UpperChars) : {a, b} = {UpperChars[i], LowerChars[i]}

\* p occurs in s at position i (1-based), whatever the case of the letters
OccursAt(s, p, i) ==
    /\ i + Len(p) - 1 <= Len(s)
    /\ \A j \in 1..Len(p) : SameLetter(s[i + j - 1], p[j])

MatchesWeather(t) == \E i \in 1..Len(t) : OccursAt(t, WeatherIn, i)
MatchesNote(t) == OccursAt(t, NoteColon, 1) \/ OccursAt(t, NoteSpace, 1)

\* the content of a note: what follows the first colon of the message, or,
\* without a colon, what follows its first five characters; trimmed
ContentOf(t) ==
    IF \E i \in 1..Len(t) : t[i] = ":"
    THEN LET c == CHOOSE i \in 1..Len(t) :
                     t[i] = ":" /\ \A k \in 1..(i - 1) : t[k] # ":"
         IN  TrimOf([k \in 1..(Len(t) - c) |-> t[c + k]])
    ELSE TrimOf([k \in 1..(Len(t) - 5) |-> t[5 + k]])

\* the records a request appends when it runs alone
AloneCount(f) ==
    LET t == TrimOf(f.message)
    IN  IF ~MatchesWeather(t) /\ MatchesNote(t) /\ ContentOf(t) # <<>> THEN 3 ELSE 2

RECURSIVE SumAlone(_, _)
SumAlone(ids, u) ==
    IF ids = {} THEN 0
    ELSE LET id == CHOOSE x \in ids : TRUE
         IN  (IF reqs[id].user_id = u THEN AloneCount(reqs[id]) ELSE 0)
                 + SumAlone(ids \ {id}, u)

\* the entry of u in a memory map: <<>> when there is none
Entry(memory, u) == IF u \in DOMAIN memory THEN <<memory[u]>> ELSE <<>>

WeatherFallback(reply) ==
    \/ reply = <<"Sorry, I couldn't retrieve the weather right now.">>
    \/ reply = <<"Weather information is not available right now.">>
    \/ /\ Len(reply) >= 2
       /\ reply[1] = "I couldn't find weather information for '"
       /\ reply[Len(reply)] = "'."

WeatherAnswer(reply) ==
    \/ WeatherFallback(reply)
    \/ reply # <<>> /\ reply[1] = "The current temperature in "

----------------------------------------------------------------------------
(* C1: the memory records sent to the language model are the last          *)
(* min(10, n) records, in stored order, of the user's list as it stood     *)
(* when the request started (n its length); the read does not truncate the *)
(* stored list, which keeps all n records.                                 *)
C1_MemoryWindow ==
    \A id \in Chats :
        LET f == reqs[id]
            n == Len(f.mem0)
            k == IF n < 10 THEN n ELSE 10
            kh == IF Len(f.history) < 10 THEN Len(f.history) ELSE 10
            stored == Get(user_memory, f.user_id)
        IN  f.api_calls > 0 =>
                /\ Len(f.messages) = 1 + k + kh + 1
                /\ \A i \in 1..k : f.messages[1 + i] = f.mem0[n - k + i]
                /\ Len(stored) >= n
                /\ \A i \in 1..n : stored[i] = f.mem0[i]

C1_Witness ==
    \E id \in DoneChats :
        /\ reqs[id].api_calls > 0
        /\ Len(reqs[id].mem0) > 10
        /\ Len(Get(user_memory, reqs[id].user_id)) > Len(reqs[id].mem0)

(* C2: a request whose trimmed message matches a tool rule ("weather in "  *)
(* anywhere, or "note:" or "note " at the start, in any case) is answered  *)
(* with the tool's reply and never calls the language model; a request     *)
(* whose message matches no rule calls it exactly once.                    *)
C2_ToolShortCircuit ==
    \A id \in Chats :
        LET f == reqs[id]
            t == TrimOf(f.message)
        IN  IF MatchesWeather(t) \/ MatchesNote(t)
            THEN /\ f.api_calls = 0
                 /\ f.pc = "done" =>
                        /\ f.tool_reply # <<>>
                        /\ f.reply = f.tool_reply
                        /\ f.completion = <<>>
                        /\ f.messages = <<>>
            ELSE /\ f.api_calls <= 1
                 /\ f.pc = "done" => f.api_calls = 1 /\ f.tool_reply = <<>>

C2_Witness ==
    \E a \in DoneChats, b \in DoneChats :
        /\ MatchesWeather(TrimOf(reqs[a].message)) \/ MatchesNote(TrimOf(reqs[a].message))
        /\ reqs[a].api_calls = 0
        /\ ~MatchesWeather(TrimOf(reqs[b].message))
        /\ ~MatchesNote(TrimOf(reqs[b].message))
        /\ reqs[b].api_calls = 1

C4_BoundedConversation ==
    \A id \in Chats :
        LET f == reqs[id]
            msgs == f.messages
            len == Len(msgs)
            h == Len(f.history)
            kh == IF h < 10 THEN h ELSE 10
        IN  f.api_calls > 0 =>
                /\ len >= 2 /\ len <= 22
                /\ msgs[1].role = "system" /\ msgs[1].content = SystemPrompt
                /\ \A i \in 2..len : msgs[i].content # SystemPrompt
                /\ msgs[len] = [role |-> "user", content |-> TrimOf(f.message)]
                /\ len - 2 - kh >= 0 /\ len - 2 - kh <= 10
                /\ \A i \in 1..(len - 2 - kh) :
                        \E j \in 1..Len(f.mem0) : msgs[1 + i] = f.mem0[j]
                /\ \A i \in 1..kh :
                        /\ msgs[len - 1 - kh + i].role = f.history[h - kh + i].role
                        /\ msgs[len - 1 - kh + i].content = f.history[h - kh + i].content

C4_Witness ==
    \E id \in DoneChats :
        /\ reqs[id].api_calls > 0
        /\ Len(reqs[id].messages) = 22
        /\ Len(reqs[id].history) > 10
        /\ Len(reqs[id].mem0) > 10

(* C5: a step changes the entry of user u in the memory map (creates it or *)
(* changes its list) only when it is a step of a /chat request whose       *)
(* user_id is u; the steps of /transcribe and / requests, and the server's *)
(* own steps, leave the whole map unchanged.                               *)
C5_PerUserFrame ==
    [][/\ reqs' = reqs => user_memory' = user_memory
       /\ \A id \in DOMAIN reqs' :
            (id \notin DOMAIN reqs \/ reqs'[id] # reqs[id]) =>
                /\ reqs'[id].endpoint # "chat" => user_memory' = user_memory
                /\ \A u \in Users \cup DOMAIN user_memory \cup DOMAIN user_memory' :
                        Entry(user_memory', u) # Entry(user_memory, u) =>
                            reqs'[id].endpoint = "chat" /\ reqs'[id].user_id = u]_vars

C5_Witness ==
    \E a \in DoneChats, b \in DoneChats, c \in DOMAIN reqs, d \in DOMAIN reqs :
        /\ reqs[a].user_id # reqs[b].user_id
        /\ reqs[c].endpoint = "transcribe" /\ reqs[c].pc = "done"
        /\ reqs[d].endpoint = "root" /\ reqs[d].pc = "done"
        /\ Len(user_memory[reqs[a].user_id]) = AloneCount(reqs[a])
        /\ Len(user_memory[reqs[b].user_id]) = AloneCount(reqs[b])

C7_NoteStoredOnlyWithContent ==
    \A id \in DoneChats :
        LET f == reqs[id]
            t == TrimOf(f.message)
            c == ContentOf(t)
            m == Get(user_memory, f.user_id)
            alone == Len(reqs) = 1 /\ inflight = <<>>
        IN  (MatchesNote(t) /\ ~MatchesWeather(t)) =>
                IF c # <<>>
                THEN /\ f.reply = << <<"Got it, I saved a note: ">> \o c >>
                     /\ Len(f.at) = 3
                     /\ \A i \in 1..3 : f.at[i] <= Len(m)
                     /\ m[f.at[1]] = [role |-> "system", content |-> <<"[NOTE] ">> \o c]
                     /\ m[f.at[2]] = [role |-> "user", content |-> t]
                     /\ m[f.at[3]] = [role |-> "assistant", content |-> f.reply[1]]
                     /\ alone => Len(m) = 3
                ELSE /\ f.reply = << <<"Your note is empty. Try 'Note: buy hay for the horses.'">> >>
                     /\ Len(f.at) = 2
                     /\ \A i \in 1..2 : f.at[i] <= Len(m)
                     /\ m[f.at[1]] = [role |-> "user", content |-> t]
                     /\ m[f.at[2]] = [role |-> "assistant", content |-> f.reply[1]]
                     /\ alone => Len(m) = 2

C7_Witness ==
    \E a \in DoneChats, b \in DoneChats :
        /\ reqs[a].user_id = reqs[b].user_id
        /\ Len(reqs[a].at) = 3
        /\ MatchesNote(TrimOf(reqs[b].message))
        /\ ContentOf(TrimOf(reqs[b].message)) = <<>>
        /\ Len(reqs[b].at) = 2

(* C8: a message that starts with "note:" or "note " and also contains     *)
(* "weather in " is answered by the weather tool alone: the reply is a     *)
(* weather reply and the request adds the user and assistant records and   *)
(* no [NOTE] record.                                                       *)
C8_WeatherBeforeNote ==
    \A id \in DoneChats :
        LET f == reqs[id]
            t == TrimOf(f.message)
            m == Get(user_memory, f.user_id)
        IN  (MatchesNote(t) /\ MatchesWeather(t)) =>
                /\ f.reply # <<>>
                /\ WeatherAnswer(f.reply[1])
                /\ f.api_calls = 0
                /\ Len(f.at) = 2
                /\ (Len(reqs) = 1 /\ inflight = <<>>) =>
                        m = <<[role |-> "user", content |-> t],
                              [role |-> "assistant", content |-> f.reply[1]]>>

C8_Witness ==
    \E id \in DoneChats :
        /\ MatchesNote(TrimOf(reqs[id].message))
        /\ MatchesWeather(TrimOf(reqs[id].message))
        /\ reqs[id].geo = "found"
        /\ reqs[id].weather = "current"

(* C9: memory is append-only: every step keeps every user's entry and      *)
(* keeps its list as a prefix of the list after the step.                  *)
C9_AppendOnly ==
    [][\A u \in DOMAIN user_memory :
        /\ u \in DOMAIN user_memory'
        /\ Len(user_memory'[u]) >= Len(user_memory[u])
        /\ \A i \in 1..Len(user_memory[u]) : user_memory'[u][i] = user_memory[u][i]]_vars

C9_Witness ==
    \E u \in DOMAIN user_memory, a \in DoneChats, b \in DoneChats :
        /\ a # b
        /\ reqs[a].user_id = u /\ reqs[b].user_id = u
        /\ Len(user_memory[u]) > 10

(* C10: with several /chat requests of one user in flight together, the    *)
(* records one request appends are adjacent in the user's list, and once   *)
(* all requests are complete every user's list holds as many records as    *)
(* its requests append when each runs alone.                               *)
C10_NoInterleaving ==
    /\ \A id \in Chats :
        \A i \in 1..(Len(reqs[id].at) - 1) : reqs[id].at[i + 1] = reqs[id].at[i] + 1
    /\ AllDone =>
        \A u \in Users : Len(Get(user_memory, u)) = SumAlone(Chats, u)

C10_Witness ==
    /\ AllDone
    /\ \E a \in DoneChats, b \in DoneChats :
        /\ a # b
        /\ reqs[a].user_id = reqs[b].user_id
        /\ Len(reqs[a].at) = 3
        /\ reqs[b].api_calls = 1

=============================================================================
